---------------------------- MODULE Spec2Model ----------------------------
(***************************************************************************)
(* risp (src/src/main.rs): tokenizer, recursive-descent parser, and the    *)
(* environment-chained evaluator, driven by the read-eval-print loop of    *)
(* main.                                                                   *)
(*                                                                         *)
(* Every Rust function is an operator of the same name.  A function that   *)
(* takes `env: &mut RispEnv` takes the environment and returns it next to  *)
(* its result.  The evaluator also threads `log`, a record of the calls of *)
(* eval (entry, return) and of the native functions; the log is what the   *)
(* properties below are stated over and has no effect on the results.      *)
(***************************************************************************)
EXTENDS Integers, Sequences, FiniteSets, TLC

VARIABLES
    pc,       \* main: "read" | "eval" | "print" | "exited" | "aborted" | "panicked"
    expr,     \* main: the line slurp_expr returned (a sequence of characters)
    env,      \* main: the root RispEnv, `env` of main
    result,   \* main: what parse_eval returned for expr
    log,      \* the eval calls made by that parse_eval
    out,      \* the line main printed last
    nlines,   \* lines read so far
    tokens,   \* parser run: the token sequence handed to parse
    parsed    \* parser run: what parse returned for it

vars == <<pc, expr, env, result, log, out, nlines, tokens, parsed>>

-----------------------------------------------------------------------------
(* Bounds of the model *)

\* lines the session reads
MaxLines == 3
\* eval calls that fit on the host call stack, nested
StackLimit == 7
\* numeric literals -MaxNum..MaxNum are recognised by the float parser
MaxNum == 16
\* length of the token sequences handed to parse in SpecParse
MaxTokens == 6

-----------------------------------------------------------------------------
(* RispExp, RispLambda, RispErr, RispEnv, Option, Result *)

Bool(b) == [t |-> "Bool", b |-> b]
Symbol(s) == [t |-> "Symbol", s |-> s]
Number(n) == [t |-> "Number", n |-> n]
List(l) == [t |-> "List", l |-> l]
Func(f) == [t |-> "Func", f |-> f]
Lambda(params_exp, body_exp) ==
    [t |-> "Lambda", params_exp |-> params_exp, body_exp |-> body_exp]

None == <<>>
Some(x) == <<x>>

Ok(v) == [k |-> "Ok", v |-> v]
Err(reason) == [k |-> "Err", reason |-> reason]

RispEnv(data, outer) == [data |-> data, outer |-> outer]

\* HashMap::new and HashMap::insert
EmptyMap == [x \in {} |-> None]
insert(m, k, v) == [x \in DOMAIN m \cup {k} |-> IF x = k THEN v ELSE m[x]]

-----------------------------------------------------------------------------
(* impl fmt::Display for RispExp *)

RECURSIVE join(_, _)
join(xs, sep) ==
    IF xs = <<>> THEN ""
    ELSE IF Len(xs) = 1 THEN xs[1]
    ELSE xs[1] \o sep \o join(Tail(xs), sep)

RECURSIVE to_string(_)
to_string(exp) ==
    CASE exp.t = "Bool" -> IF exp.b THEN "true" ELSE "false"
      [] exp.t = "Symbol" -> exp.s
      [] exp.t = "Number" -> ToString(exp.n)
      [] exp.t = "List" ->
            "(" \o join([i \in 1..Len(exp.l) |-> to_string(exp.l[i])], ",") \o ")"
      [] exp.t = "Func" -> "Function {}"
      [] exp.t = "Lambda" -> "Lambda {}"

-----------------------------------------------------------------------------
(* tokenize *)

Whitespace == {" ", "\n"}

\* str::replace for a one-character pattern
RECURSIVE replace(_, _, _)
replace(s, from, to) ==
    IF s = <<>> THEN <<>>
    ELSE (IF s[1] = from THEN to ELSE <<s[1]>>) \o replace(Tail(s), from, to)

\* str::split_whitespace, each fragment collected into a String
RECURSIVE split_whitespace(_, _)
split_whitespace(s, word) ==
    IF s = <<>> THEN (IF word = "" THEN <<>> ELSE <<word>>)
    ELSE IF s[1] \in Whitespace
         THEN (IF word = "" THEN <<>> ELSE <<word>>) \o split_whitespace(Tail(s), "")
         ELSE split_whitespace(Tail(s), word \o s[1])

tokenize(e) ==
    split_whitespace(
        replace(replace(e, "(", <<" ", "(", " ">>), ")", <<" ", ")", " ">>), "")

-----------------------------------------------------------------------------
(* parse, read_seq, parse_atom *)

\* str::parse::<f64>, on the literals the model reads: the decimal integers
\* -MaxNum..MaxNum.  Any other token is a ParseFloatError (None).
parse_float(token) ==
    IF \E n \in -MaxNum..MaxNum : ToString(n) = token
    THEN Some(CHOOSE n \in -MaxNum..MaxNum : ToString(n) = token)
    ELSE None

parse_atom(token) ==
    CASE token = "true" -> Bool(TRUE)
      [] token = "false" -> Bool(FALSE)
      [] OTHER ->
            LET potential_float == parse_float(token)
            IN  IF potential_float # None THEN Number(potential_float[1])
                ELSE Symbol(token)

\* The two reasons of the parser quote the parenthesis in backquotes; a TLA+
\* string cannot hold a backquote, and an apostrophe stands for it here.
RECURSIVE parse(_)
RECURSIVE read_seq(_, _)

\* read_seq_close, had it left the ")" in the remainder
read_seq_close_kept(res, xs) == Ok(<<List(res), xs>>)

\* the arm of read_seq's loop that meets ")": skip it, head to the token after
read_seq_close(res, xs) == Ok(<<List(res), Tail(xs)>>)

\* read_seq's loop, one iteration per call; res and xs are its two locals
read_seq(res, xs) ==
    IF xs = <<>> THEN Err("could not find closing ')'")
    ELSE IF xs[1] = ")" THEN read_seq_close(res, xs)
    ELSE LET p == parse(xs)
         IN  IF p.k = "Err" THEN p
             ELSE read_seq(Append(res, p.v[1]), p.v[2])

parse(toks) ==
    IF toks = <<>> THEN Err("could not get token")
    ELSE LET token == toks[1]
             rest == Tail(toks)
         IN  CASE token = "(" -> read_seq(<<>>, rest)
               [] token = ")" -> Err("unexpected ')'")
               [] OTHER -> Ok(<<parse_atom(token), rest>>)

-----------------------------------------------------------------------------
(* The builtin library: the closures default_env registers *)

RECURSIVE sum(_)
sum(floats) == IF floats = <<>> THEN 0 ELSE floats[1] + sum(Tail(floats))

parse_single_float(exp) ==
    IF exp.t = "Number" THEN Ok(exp.n) ELSE Err("expected a number")

\* map(parse_single_float).collect(): the floats, or the first error
parse_list_of_floats(args) ==
    IF \E i \in 1..Len(args) : parse_single_float(args[i]).k = "Err"
    THEN parse_single_float(
             args[CHOOSE i \in 1..Len(args) :
                     /\ parse_single_float(args[i]).k = "Err"
                     /\ \A j \in 1..(i - 1) : parse_single_float(args[j]).k = "Ok"])
    ELSE Ok([i \in 1..Len(args) |-> parse_single_float(args[i]).v])

\* the $check_fn closures handed to ensure_tonicity!, by the name they are
\* registered under
check_fn(name, a, b) ==
    CASE name = "=" -> a = b
      [] name = ">" -> a > b
      [] name = ">=" -> a >= b
      [] name = "<" -> a < b
      [] name = "<=" -> a <= b

\* fn f(prev, xs) of ensure_tonicity!
RECURSIVE tonicity_f(_, _, _)
tonicity_f(name, prev, xs) ==
    IF xs = <<>> THEN TRUE
    ELSE check_fn(name, prev, xs[1]) /\ tonicity_f(name, xs[1], Tail(xs))

ensure_tonicity(name, args) ==
    LET floats == parse_list_of_floats(args)
    IN  IF floats.k = "Err" THEN floats
        ELSE IF floats.v = <<>> THEN Err("expected at least one number")
        ELSE Ok(Bool(tonicity_f(name, floats.v[1], Tail(floats.v))))

func_add(args) ==
    LET floats == parse_list_of_floats(args)
    IN  IF floats.k = "Err" THEN floats ELSE Ok(Number(sum(floats.v)))

func_sub(args) ==
    LET floats == parse_list_of_floats(args)
    IN  IF floats.k = "Err" THEN floats
        ELSE IF floats.v = <<>> THEN Err("expected at least one number")
        ELSE Ok(Number(floats.v[1] - sum(Tail(floats.v))))

\* f(&args) for the fn pointer a Func holds; a Func is named by its key
call_func(f, args) ==
    CASE f = "+" -> func_add(args)
      [] f = "-" -> func_sub(args)
      [] OTHER -> ensure_tonicity(f, args)

FuncNames == {"+", "-", "=", ">", ">=", "<", "<="}

default_env == RispEnv([f \in FuncNames |-> Func(f)], None)

-----------------------------------------------------------------------------
(* The evaluator *)

\* How a call ends besides returning a Result: process::exit(0), and the
\* abort of the process when the nested calls of eval overflow its stack.
ProcessExit == [k |-> "Exit"]
StackOverflow == [k |-> "Overflow"]

\* what a function over `env: &mut RispEnv` hands back
R(res, e, lg) == [res |-> res, env |-> e, log |-> lg]

\* the entries of log
Enter(d, exp, e) == [ev |-> "enter", d |-> d, exp |-> exp, env |-> e]
Exit(d, exp, e, res) == [ev |-> "exit", d |-> d, exp |-> exp, env |-> e, res |-> res]
Native(d, f, args) == [ev |-> "native", d |-> d, f |-> f, args |-> args]

\* env_get, had it asked the outer environment first
RECURSIVE env_get_outer_first(_, _)
env_get_outer_first(k, e) ==
    LET o == IF e.outer # None THEN env_get_outer_first(k, e.outer[1]) ELSE None
    IN  IF o # None THEN o
        ELSE IF k \in DOMAIN e.data THEN Some(e.data[k])
        ELSE None

RECURSIVE env_get(_, _)
env_get(k, e) ==
    IF k \in DOMAIN e.data THEN Some(e.data[k])
    ELSE IF e.outer # None THEN env_get(k, e.outer[1])
    ELSE None

\* define, had it assigned to the nearest frame that binds k already
RECURSIVE define_nearest(_, _, _)
define_nearest(e, k, v) ==
    IF k \in DOMAIN e.data \/ env_get(k, e) = None
    THEN [e EXCEPT !.data = insert(e.data, k, v)]
    ELSE [e EXCEPT !.outer = Some(define_nearest(e.outer[1], k, v))]

\* env.data.insert(first_str, second_eval) of eval_def_args
define(e, k, v) == [e EXCEPT !.data = insert(e.data, k, v)]

\* e with the bindings of every frame but the root's hidden
RECURSIVE hide_frames(_)
hide_frames(e) ==
    IF e.outer = None THEN e
    ELSE RispEnv(EmptyMap, Some(hide_frames(e.outer[1])))

\* child_env, had the body seen the root's bindings only, not the caller's
child_env_global(data, outer_env) == RispEnv(data, Some(hide_frames(outer_env)))

\* RispEnv { data, outer: Some(outer_env) } of env_for_lambdas
child_env(data, outer_env) == RispEnv(data, Some(outer_env))

\* form_idx, had the two branches been taken for each other
form_idx_swapped(b) == IF b THEN 2 ELSE 1

\* let form_idx = if b { 1 } else { 2 } of eval_if_args
form_idx(b) == IF b THEN 1 ELSE 2

RECURSIVE eval(_, _, _, _)
RECURSIVE eval_arm(_, _, _, _)
RECURSIVE map_eval_collect(_, _, _, _)

\* map_eval_collect, had it evaluated every form before looking for an error
map_eval_collect_all(forms, e, lg, d) ==
    IF forms = <<>> THEN R(Ok(<<>>), e, lg)
    ELSE LET x == eval(forms[1], e, lg, d)
         IN  IF x.res.k \notin {"Ok", "Err"} THEN x
             ELSE LET xs == map_eval_collect(Tail(forms), x.env, x.log, d)
                  IN  IF x.res.k = "Err" THEN R(x.res, xs.env, xs.log)
                      ELSE IF xs.res.k # "Ok" THEN xs
                      ELSE R(Ok(<<x.res.v>> \o xs.res.v), xs.env, xs.log)

\* iter().map(|x| eval(x, env)).collect::<Result<Vec<_>, _>>(): the forms are
\* evaluated in order until one fails
map_eval_collect(forms, e, lg, d) ==
    IF forms = <<>> THEN R(Ok(<<>>), e, lg)
    ELSE LET x == eval(forms[1], e, lg, d)
         IN  IF x.res.k # "Ok" THEN x
             ELSE LET xs == map_eval_collect(Tail(forms), x.env, x.log, d)
                  IN  IF xs.res.k # "Ok" THEN xs
                      ELSE R(Ok(<<x.res.v>> \o xs.res.v), xs.env, xs.log)

eval_forms(arg_forms, e, lg, d) == map_eval_collect(arg_forms, e, lg, d)

eval_if_args(arg_forms, e, lg, d) ==
    IF arg_forms = <<>> THEN R(Err("expected test form"), e, lg)
    ELSE
    LET test_form == arg_forms[1]
        test_eval == eval(test_form, e, lg, d)
    IN  IF test_eval.res.k # "Ok" THEN test_eval
        ELSE IF test_eval.res.v.t = "Bool"
        THEN LET idx == form_idx(test_eval.res.v.b)
             IN  IF idx + 1 > Len(arg_forms)
                 THEN R(Err("expected form idx=" \o ToString(idx)),
                        test_eval.env, test_eval.log)
                 ELSE eval(arg_forms[idx + 1], test_eval.env, test_eval.log, d)
        ELSE R(Err("unexpected test form='" \o to_string(test_form) \o "'"),
               test_eval.env, test_eval.log)

\* eval_def_args, had it counted the forms after evaluating the second
eval_def_args_counts_late(arg_forms, e, lg, d) ==
    IF arg_forms = <<>> THEN R(Err("expected first form"), e, lg)
    ELSE
    LET first_form == arg_forms[1]
    IN  IF first_form.t # "Symbol"
        THEN R(Err("expected first form to be a symbol"), e, lg)
        ELSE IF Len(arg_forms) < 2 THEN R(Err("expected second form"), e, lg)
        ELSE LET second_eval == eval(arg_forms[2], e, lg, d)
             IN  IF second_eval.res.k # "Ok" THEN second_eval
                 ELSE IF Len(arg_forms) > 2
                 THEN R(Err("def can only have two forms "),
                        second_eval.env, second_eval.log)
                 ELSE R(Ok(first_form),
                        define(second_eval.env, first_form.s, second_eval.res.v),
                        second_eval.log)

eval_def_args(arg_forms, e, lg, d) ==
    IF arg_forms = <<>> THEN R(Err("expected first form"), e, lg)
    ELSE
    LET first_form == arg_forms[1]
    IN  IF first_form.t # "Symbol"
        THEN R(Err("expected first form to be a symbol"), e, lg)
        ELSE IF Len(arg_forms) < 2 THEN R(Err("expected second form"), e, lg)
        ELSE IF Len(arg_forms) > 2 THEN R(Err("def can only have two forms "), e, lg)
        ELSE LET second_eval == eval(arg_forms[2], e, lg, d)
             IN  IF second_eval.res.k # "Ok" THEN second_eval
                 ELSE R(Ok(first_form),
                        define(second_eval.env, first_form.s, second_eval.res.v),
                        second_eval.log)

eval_lambda_args(arg_forms) ==
    IF arg_forms = <<>> THEN Err("expected args form")
    ELSE IF Len(arg_forms) < 2 THEN Err("expected second form")
    ELSE IF Len(arg_forms) > 2 THEN Err("fn definition can only have two forms ")
    ELSE Ok(Lambda(arg_forms[1], arg_forms[2]))

\* the match on the head symbol's name
built_in_symbol(s, arg_forms, e, lg, d) ==
    CASE s = "if" -> Some(eval_if_args(arg_forms, e, lg, d))
      [] s = "def" -> Some(eval_def_args(arg_forms, e, lg, d))
      [] s = "fn" -> Some(R(eval_lambda_args(arg_forms), e, lg))
      [] s = "exit" -> Some(R(ProcessExit, e, lg))
      [] OTHER -> None

\* eval_built_in_form, had a binding of the head symbol taken precedence
eval_built_in_form_shadowable(exp, arg_forms, e, lg, d) ==
    IF exp.t = "Symbol" /\ env_get(exp.s, e) = None
    THEN built_in_symbol(exp.s, arg_forms, e, lg, d)
    ELSE None

eval_built_in_form(exp, arg_forms, e, lg, d) ==
    IF exp.t = "Symbol" THEN built_in_symbol(exp.s, arg_forms, e, lg, d) ELSE None

parse_list_of_symbol_strings(form) ==
    IF form.t # "List" THEN Err("expected args form to be a list")
    ELSE IF \E i \in 1..Len(form.l) : form.l[i].t # "Symbol"
    THEN Err("expected symbols in the argumen list")
    ELSE Ok([i \in 1..Len(form.l) |-> form.l[i].s])

\* for (k, v) in ks.iter().zip(vs.iter()) { data.insert(k, v) }
RECURSIVE zip_insert(_, _, _)
zip_insert(data, ks, vs) ==
    IF ks = <<>> \/ vs = <<>> THEN data
    ELSE zip_insert(insert(data, ks[1], vs[1]), Tail(ks), Tail(vs))

\* env_for_lambdas, had it evaluated the argument forms before it looked at
\* the parameters
env_for_lambdas_eager(params, arg_forms, outer_env, lg, d) ==
    LET vs == eval_forms(arg_forms, outer_env, lg, d)
        ks == parse_list_of_symbol_strings(params)
    IN  IF vs.res.k # "Ok" THEN vs
        ELSE IF ks.k = "Err" THEN R(ks, vs.env, vs.log)
        ELSE IF Len(ks.v) # Len(arg_forms)
        THEN R(Err("expected " \o ToString(Len(ks.v)) \o " arguments, got "
                       \o ToString(Len(arg_forms))),
               vs.env, vs.log)
        ELSE R(Ok(child_env(zip_insert(EmptyMap, ks.v, vs.res.v), vs.env)),
               vs.env, vs.log)

\* Ok(new_env) is returned with outer_env, which new_env borrows
env_for_lambdas(params, arg_forms, outer_env, lg, d) ==
    LET ks == parse_list_of_symbol_strings(params)
    IN  IF ks.k = "Err" THEN R(ks, outer_env, lg)
        ELSE IF Len(ks.v) # Len(arg_forms)
        THEN R(Err("expected " \o ToString(Len(ks.v)) \o " arguments, got "
                       \o ToString(Len(arg_forms))),
               outer_env, lg)
        ELSE LET vs == eval_forms(arg_forms, outer_env, lg, d)
             IN  IF vs.res.k # "Ok" THEN vs
                 ELSE R(Ok(child_env(zip_insert(EmptyMap, ks.v, vs.res.v), vs.env)),
                        vs.env, vs.log)

\* the match of eval; d is the depth of this call of eval
eval_arm(exp, e, lg, d) ==
    CASE exp.t = "Bool" -> R(Ok(exp), e, lg)
      [] exp.t = "Symbol" ->
            LET x == env_get(exp.s, e)
            IN  IF x = None
                THEN R(Err("unexpected symbol k='" \o exp.s \o "'"), e, lg)
                ELSE R(Ok(x[1]), e, lg)
      [] exp.t = "Number" -> R(Ok(exp), e, lg)
      [] exp.t = "List" ->
            IF exp.l = <<>> THEN R(Err("expected a non-empty list"), e, lg)
            ELSE
            LET first_form == exp.l[1]
                arg_forms == Tail(exp.l)
                built_in == eval_built_in_form(first_form, arg_forms, e, lg, d + 1)
            IN  IF built_in # None THEN built_in[1]
                ELSE
                LET first_eval == eval(first_form, e, lg, d + 1)
                IN  IF first_eval.res.k # "Ok" THEN first_eval
                    ELSE
                    CASE first_eval.res.v.t = "Func" ->
                          LET args_eval == map_eval_collect(
                                  arg_forms, first_eval.env, first_eval.log, d + 1)
                          IN  IF args_eval.res.k # "Ok" THEN args_eval
                              ELSE R(call_func(first_eval.res.v.f, args_eval.res.v),
                                     args_eval.env,
                                     Append(args_eval.log,
                                            Native(d, first_eval.res.v.f,
                                                   args_eval.res.v)))
                      [] first_eval.res.v.t = "Lambda" ->
                          LET new_env == env_for_lambdas(
                                  first_eval.res.v.params_exp, arg_forms,
                                  first_eval.env, first_eval.log, d + 1)
                          IN  IF new_env.res.k # "Ok" THEN new_env
                              ELSE
                              LET body == eval(first_eval.res.v.body_exp,
                                               new_env.res.v, new_env.log, d + 1)
                              IN  \* new_env is dropped; env is what its outer
                                  \* link refers to
                                  R(body.res, body.env.outer[1], body.log)
                      [] OTHER ->
                          R(Err("first form must be a function"),
                            first_eval.env, first_eval.log)
      [] exp.t = "Func" -> R(Err("unexpected form"), e, lg)
      [] exp.t = "Lambda" -> R(Err("unexpected form"), e, lg)

\* One call of eval: it needs a stack frame, runs the match, and returns
\* unless the process ended meanwhile.
eval(exp, e, lg, d) ==
    IF d > StackLimit THEN R(StackOverflow, e, lg)
    ELSE LET r == eval_arm(exp, e, Append(lg, Enter(d, exp, e)), d)
         IN  IF r.res.k \in {"Ok", "Err"}
             THEN R(r.res, r.env, Append(r.log, Exit(d, exp, r.env, r.res)))
             ELSE r

\* the process ends inside parse_eval when eval exits or overflows
parse_eval(e_text, e) ==
    LET p == parse(tokenize(e_text))
    IN  IF p.k = "Err" THEN R(p, e, <<>>)
        ELSE eval(p.v[1], e, <<>>, 1)

-----------------------------------------------------------------------------
(* main: the read-eval-print loop *)

\* The lines read from stdin, each a sequence of characters ending with the
\* newline read_line keeps.
Lines == {
    \* (def x 10)
    <<"(", "d", "e", "f", " ", "x", " ", "1", "0", ")", "\n">>,
    \* (def x 2)
    <<"(", "d", "e", "f", " ", "x", " ", "2", ")", "\n">>,
    \* (+ x 5)
    <<"(", "+", " ", "x", " ", "5", ")", "\n">>,
    \* x
    <<"x", "\n">>,
    \* (def x (+ x 1))
    <<"(", "d", "e", "f", " ", "x", " ", "(", "+", " ", "x", " ", "1", ")", ")", "\n">>,
    \* (def f (fn () y))
    <<"(", "d", "e", "f", " ", "f", " ", "(", "f", "n", " ", "(", ")", " ", "y", ")", ")", "\n">>,
    \* ((fn (y) (f)) 5)
    <<"(", "(", "f", "n", " ", "(", "y", ")", " ", "(", "f", ")", ")", " ", "5", ")", "\n">>,
    \* ((fn (x) x) 7)
    <<"(", "(", "f", "n", " ", "(", "x", ")", " ", "x", ")", " ", "7", ")", "\n">>,
    \* ((fn (a) (def x a)) 3)
    <<"(", "(", "f", "n", " ", "(", "a", ")", " ", "(", "d", "e", "f", " ", "x", " ", "a", ")", ")", " ", "3", ")", "\n">>,
    \* ((fn (a b) (+ a b)) 3 4)
    <<"(", "(", "f", "n", " ", "(", "a", " ", "b", ")", " ", "(", "+", " ", "a", " ", "b", ")", ")", " ", "3", " ", "4", ")", "\n">>,
    \* ((fn (a) ((fn (b) (def a b)) 2)) 1)
    <<"(", "(", "f", "n", " ", "(", "a", ")", " ", "(", "(", "f", "n", " ", "(", "b", ")", " ", "(", "d", "e", "f", " ", "a", " ", "b", ")", ")", " ", "2", ")", ")", " ", "1", ")", "\n">>,
    \* ((fn (a) z) (def z 1))
    <<"(", "(", "f", "n", " ", "(", "a", ")", " ", "z", ")", " ", "(", "d", "e", "f", " ", "z", " ", "1", ")", ")", "\n">>,
    \* ((fn (a b) a) (def z 1))
    <<"(", "(", "f", "n", " ", "(", "a", " ", "b", ")", " ", "a", ")", " ", "(", "d", "e", "f", " ", "z", " ", "1", ")", ")", "\n">>,
    \* ((fn a a) (def z 1))
    <<"(", "(", "f", "n", " ", "a", " ", "a", ")", " ", "(", "d", "e", "f", " ", "z", " ", "1", ")", ")", "\n">>,
    \* ((fn (a 1) a) (def z 1) 2)
    <<"(", "(", "f", "n", " ", "(", "a", " ", "1", ")", " ", "a", ")", " ", "(", "d", "e", "f", " ", "z", " ", "1", ")", " ", "2", ")", "\n">>,
    \* (+ (def z 1) y (def w 2))
    <<"(", "+", " ", "(", "d", "e", "f", " ", "z", " ", "1", ")", " ", "y", " ", "(", "d", "e", "f", " ", "w", " ", "2", ")", ")", "\n">>,
    \* (- 7 2)
    <<"(", "-", " ", "7", " ", "2", ")", "\n">>,
    \* (< 1 2 3)
    <<"(", "<", " ", "1", " ", "2", " ", "3", ")", "\n">>,
    \* (+ y 1)
    <<"(", "+", " ", "y", " ", "1", ")", "\n">>,
    \* (-)
    <<"(", "-", ")", "\n">>,
    \* (+ 1 true)
    <<"(", "+", " ", "1", " ", "t", "r", "u", "e", ")", "\n">>,
    \* (1 2)
    <<"(", "1", " ", "2", ")", "\n">>,
    \* ()
    <<"(", ")", "\n">>,
    \* (if (> 3 2) 1 (def z 1))
    <<"(", "i", "f", " ", "(", ">", " ", "3", " ", "2", ")", " ", "1", " ", "(", "d", "e", "f", " ", "z", " ", "1", ")", ")", "\n">>,
    \* (if (< 3 2) (def z 1) 0)
    <<"(", "i", "f", " ", "(", "<", " ", "3", " ", "2", ")", " ", "(", "d", "e", "f", " ", "z", " ", "1", ")", " ", "0", ")", "\n">>,
    \* (if 1 (def z 1) (def w 2))
    <<"(", "i", "f", " ", "1", " ", "(", "d", "e", "f", " ", "z", " ", "1", ")", " ", "(", "d", "e", "f", " ", "w", " ", "2", ")", ")", "\n">>,
    \* (if (< 3 2) 1)
    <<"(", "i", "f", " ", "(", "<", " ", "3", " ", "2", ")", " ", "1", ")", "\n">>,
    \* (if (> 3 2) 1 (exit))
    <<"(", "i", "f", " ", "(", ">", " ", "3", " ", "2", ")", " ", "1", " ", "(", "e", "x", "i", "t", ")", ")", "\n">>,
    \* (if true)
    <<"(", "i", "f", " ", "t", "r", "u", "e", ")", "\n">>,
    \* (if)
    <<"(", "i", "f", ")", "\n">>,
    \* (if y 1 2)
    <<"(", "i", "f", " ", "y", " ", "1", " ", "2", ")", "\n">>,
    \* (def if 5)
    <<"(", "d", "e", "f", " ", "i", "f", " ", "5", ")", "\n">>,
    \* (if true if 0)
    <<"(", "i", "f", " ", "t", "r", "u", "e", " ", "i", "f", " ", "0", ")", "\n">>,
    \* (def fn 1)
    <<"(", "d", "e", "f", " ", "f", "n", " ", "1", ")", "\n">>,
    \* ((fn (fn def) (def if (fn (a) def))) 1 2)
    <<"(", "(", "f", "n", " ", "(", "f", "n", " ", "d", "e", "f", ")", " ", "(", "d", "e", "f", " ", "i", "f", " ", "(", "f", "n", " ", "(", "a", ")", " ", "d", "e", "f", ")", ")", ")", " ", "1", " ", "2", ")", "\n">>,
    \* (if 8)
    <<"(", "i", "f", " ", "8", ")", "\n">>,
    \* (def x (+ (def x 1) y))
    <<"(", "d", "e", "f", " ", "x", " ", "(", "+", " ", "(", "d", "e", "f", " ", "x", " ", "1", ")", " ", "y", ")", ")", "\n">>,
    \* (def 1 2)
    <<"(", "d", "e", "f", " ", "1", " ", "2", ")", "\n">>,
    \* (def x)
    <<"(", "d", "e", "f", " ", "x", ")", "\n">>,
    \* (def x (def z 3) 4)
    <<"(", "d", "e", "f", " ", "x", " ", "(", "d", "e", "f", " ", "z", " ", "3", ")", " ", "4", ")", "\n">>,
    \* (def q y)
    <<"(", "d", "e", "f", " ", "q", " ", "y", ")", "\n">>,
    \* (exit)
    <<"(", "e", "x", "i", "t", ")", "\n">>,
    \* (def g (fn () (exit)))
    <<"(", "d", "e", "f", " ", "g", " ", "(", "f", "n", " ", "(", ")", " ", "(", "e", "x", "i", "t", ")", ")", ")", "\n">>,
    \* (g)
    <<"(", "g", ")", "\n">>,
    \* (def r (fn () (r)))
    <<"(", "d", "e", "f", " ", "r", " ", "(", "f", "n", " ", "(", ")", " ", "(", "r", ")", ")", ")", "\n">>,
    \* (r)
    <<"(", "r", ")", "\n">>,
    \* (+ 1 2
    <<"(", "+", " ", "1", " ", "2", "\n">>,
    \* )
    <<")", "\n">>,
    \* (an empty line)
    <<"\n">>,
    \* (+ 1 2)) (exit)
    <<"(", "+", " ", "1", " ", "2", ")", ")", " ", "(", "e", "x", "i", "t", ")", "\n">>
    }

Init ==
    /\ pc = "read"
    /\ expr = <<>>
    /\ env = default_env
    /\ result = None
    /\ log = <<>>
    /\ out = ""
    /\ nlines = 0
    /\ tokens = <<>>
    /\ parsed = None

\* println!("risp >"); let expr = slurp_expr();
main_slurp ==
    /\ pc = "read"
    /\ nlines < MaxLines
    /\ \E line \in Lines : expr' = line
    /\ out' = "risp >"
    /\ nlines' = nlines + 1
    /\ pc' = "eval"
    /\ UNCHANGED <<env, result, log, tokens, parsed>>

\* read_line fails (an I/O error, a line that is not UTF-8): expect panics
main_slurp_panic ==
    /\ pc = "read"
    /\ out' = "risp >"
    /\ pc' = "panicked"
    /\ UNCHANGED <<expr, env, result, log, nlines, tokens, parsed>>

\* main_parse_eval, had main unwrapped the result: an error ends the process
main_parse_eval_unwrap ==
    /\ pc = "eval"
    /\ LET r == parse_eval(expr, env)
       IN  /\ result' = Some(r.res)
           /\ env' = r.env
           /\ log' = r.log
           /\ pc' = CASE r.res.k = "Exit" -> "exited"
                      [] r.res.k = "Overflow" -> "aborted"
                      [] r.res.k = "Err" -> "panicked"
                      [] OTHER -> "print"
    /\ UNCHANGED <<expr, out, nlines, tokens, parsed>>

\* parse_eval(expr, env)
main_parse_eval ==
    /\ pc = "eval"
    /\ LET r == parse_eval(expr, env)
       IN  /\ result' = Some(r.res)
           /\ env' = r.env
           /\ log' = r.log
           /\ pc' = CASE r.res.k = "Exit" -> "exited"
                      [] r.res.k = "Overflow" -> "aborted"
                      [] OTHER -> "print"
    /\ UNCHANGED <<expr, out, nlines, tokens, parsed>>

\* the match on parse_eval's result; expr and the result are dropped
main_println ==
    /\ pc = "print"
    /\ out' = IF result[1].k = "Ok" THEN "=> " \o to_string(result[1].v)
              ELSE "// " \o result[1].reason
    /\ pc' = "read"
    /\ expr' = <<>>
    /\ result' = None
    /\ log' = <<>>
    /\ UNCHANGED <<env, nlines, tokens, parsed>>

Next == main_slurp \/ main_slurp_panic \/ main_parse_eval \/ main_println

Spec == Init /\ [][Next]_vars

-----------------------------------------------------------------------------
(* The parser on every token sequence up to MaxTokens *)

TokenAlphabet == {"(", ")", "x", "1", "true"}

TokenSeqs == UNION {[1..n -> TokenAlphabet] : n \in 0..MaxTokens}

InitParse ==
    /\ pc = "read"
    /\ expr = <<>>
    /\ env = default_env
    /\ result = None
    /\ log = <<>>
    /\ out = ""
    /\ nlines = 0
    /\ tokens \in TokenSeqs
    /\ parsed = None

parse_tokens ==
    /\ parsed = None
    /\ parsed' = Some(parse(tokens))
    /\ UNCHANGED <<pc, expr, env, result, log, out, nlines, tokens>>

NextParse == parse_tokens

SpecParse == InitParse /\ [][NextParse]_vars

-----------------------------------------------------------------------------
(* Reading the log *)

SpecialNames == {"if", "def", "fn", "exit"}

\* a non-empty list whose head is the symbol s
IsForm(exp, s) == exp.t = "List" /\ exp.l # <<>> /\ exp.l[1] = Symbol(s)

\* a non-empty list that no special form claims: ordinary application
IsApplication(exp) ==
    /\ exp.t = "List"
    /\ exp.l # <<>>
    /\ ~(exp.l[1].t = "Symbol" /\ exp.l[1].s \in SpecialNames)

IsEnter(lg, i) == lg[i].ev = "enter"

\* the return of the call entered at i, 0 when the process ended inside it
Ret(lg, i) ==
    LET js == {j \in (i + 1)..Len(lg) : lg[j].ev = "exit" /\ lg[j].d = lg[i].d}
    IN  IF js = {} THEN 0 ELSE CHOOSE j \in js : \A m \in js : j <= m

\* the call inside which the call entered at i was made
Parent(lg, i) ==
    LET ps == {q \in 1..(i - 1) : lg[q].ev = "enter" /\ lg[q].d = lg[i].d - 1}
    IN  CHOOSE q \in ps : \A m \in ps : m <= q

\* the calls made directly by the call entered at i, in order of entry
Children(lg, i) ==
    LET last == IF Ret(lg, i) = 0 THEN Len(lg) ELSE Ret(lg, i)
    IN  SelectSeq([c \in 1..last |-> c],
                  LAMBDA c : c > i /\ lg[c].ev = "enter" /\ lg[c].d = lg[i].d + 1)

\* frames on the path from e to the root, e's own first
RECURSIVE Frames(_)
Frames(e) == <<e.data>> \o (IF e.outer = None THEN <<>> ELSE Frames(e.outer[1]))

\* the entry of a closure body: the only call made in a frame deeper than the
\* one of the event before it
IsBodyEntry(lg, i) ==
    /\ i > 1
    /\ lg[i].ev = "enter"
    /\ Len(Frames(lg[i].env)) > Len(Frames(lg[i - 1].env))

-----------------------------------------------------------------------------
(* C1 *)

\* C1: frame isolation.  No call of eval changes a frame above the one it runs
\* in; a successful def leaves its value in the frame it runs in; and when a
\* closure application returns, the caller's environment (its frame and all
\* ancestors) is what it was when the argument forms had been evaluated.
Thm_C1 ==
    \A i \in 1..Len(log) :
        (IsEnter(log, i) /\ Ret(log, i) # 0) =>
            LET j == Ret(log, i)
            IN  /\ log[j].env.outer = log[i].env.outer
                /\ (IsForm(log[i].exp, "def") /\ log[j].res.k = "Ok") =>
                       /\ log[j].res.v.s \in DOMAIN log[j].env.data
                       /\ log[j].env.data[log[j].res.v.s] = log[j - 1].res.v
                /\ (IsBodyEntry(log, i) /\ Ret(log, Parent(log, i)) # 0) =>
                       log[Ret(log, Parent(log, i))].env = log[i - 1].env

\* a closure body has executed a def of a name bound in the root frame, the
\* call has returned, and the root binding is not the value the body defined
Wit_C1 ==
    /\ pc = "print"
    /\ \E i \in 1..Len(log) :
          /\ log[i].ev = "exit"
          /\ IsForm(log[i].exp, "def")
          /\ log[i].res.k = "Ok"
          /\ log[i].env.outer # None
          /\ log[i].res.v.s \in DOMAIN env.data
          /\ env.data[log[i].res.v.s] # log[i].env.data[log[i].res.v.s]

-----------------------------------------------------------------------------
(* C2 *)

\* the frames of e that bind k, counted from e's own frame (1) to the root
Binders(k, e) == {n \in 1..Len(Frames(e)) : k \in DOMAIN Frames(e)[n]}

\* C2: nearest-binding lookup.  A call of eval on Symbol(k) returns the value
\* k has in the first frame, from the current one to the root, that binds k,
\* and fails with the unresolved-symbol reason naming k exactly when no frame
\* on that path binds k.
Thm_C2 ==
    \A i \in 1..Len(log) :
        (log[i].ev = "exit" /\ log[i].exp.t = "Symbol") =>
            LET k == log[i].exp.s
                bs == Binders(k, log[i].env)
            IN  IF bs = {}
                THEN log[i].res = Err("unexpected symbol k='" \o k \o "'")
                ELSE log[i].res =
                         Ok(Frames(log[i].env)[CHOOSE n \in bs : \A m \in bs : n <= m][k])

\* a parameter named like a root binding resolved to the argument inside the
\* body, and the root still holds the outer definition after the call
Wit_C2 ==
    /\ pc = "print"
    /\ \E i \in 1..Len(log) :
          /\ log[i].ev = "exit"
          /\ log[i].exp.t = "Symbol"
          /\ log[i].env.outer # None
          /\ log[i].exp.s \in DOMAIN log[i].env.data
          /\ log[i].exp.s \in DOMAIN env.data
          /\ log[i].res = Ok(log[i].env.data[log[i].exp.s])
          /\ log[i].res # Ok(env.data[log[i].exp.s])

-----------------------------------------------------------------------------
(* C3 *)

\* C3: a closure captures no frame.  Whenever a closure body is entered, the
\* parent of its frame is the caller's environment as it was at the call site
\* (after the argument forms), not an environment of the place where fn was
\* evaluated; so a free name of the body that is bound by the caller's
\* parameter resolves to that parameter.
Thm_C3 ==
    \A i \in 1..Len(log) :
        IsBodyEntry(log, i) =>
            /\ log[i].env.outer = Some(log[i - 1].env)
            /\ ( /\ Ret(log, i) # 0
                 /\ log[i].exp.t = "Symbol"
                 /\ log[i].exp.s \notin DOMAIN log[i].env.data
                 /\ log[i].exp.s \in DOMAIN log[i - 1].env.data )
               => log[Ret(log, i)].res = Ok(log[i - 1].env.data[log[i].exp.s])

\* f, defined at the root where y is unbound, was called from inside a closure
\* whose parameter is y, and its body y evaluated to that parameter's value
Wit_C3 ==
    /\ pc = "print"
    /\ "y" \notin DOMAIN env.data
    /\ \E i \in 1..Len(log) :
          /\ IsBodyEntry(log, i)
          /\ log[i].exp = Symbol("y")
          /\ log[i].env.data = EmptyMap
          /\ "f" \in DOMAIN env.data
          /\ env.data["f"] = Lambda(List(<<>>), Symbol("y"))
          /\ Ret(log, i) # 0
          /\ log[Ret(log, i)].res = Ok(Number(5))

-----------------------------------------------------------------------------
(* C4 *)

\* the entry at i is an ordinary application whose head has been evaluated
HeadReturned(lg, i) ==
    /\ IsEnter(lg, i)
    /\ IsApplication(lg[i].exp)
    /\ i + 1 <= Len(lg)
    /\ IsEnter(lg, i + 1)
    /\ Ret(lg, i + 1) # 0

\* why a parameter expression cannot take the argument forms, "" if it can
Invalid(params, arg_forms) ==
    IF params.t # "List" THEN "expected args form to be a list"
    ELSE IF \E n \in 1..Len(params.l) : params.l[n].t # "Symbol"
    THEN "expected symbols in the argumen list"
    ELSE IF Len(params.l) # Len(arg_forms)
    THEN "expected " \o ToString(Len(params.l)) \o " arguments, got "
             \o ToString(Len(arg_forms))
    ELSE ""

\* C4: closure application validates before it evaluates.  fn with two
\* argument forms yields the closure whatever the parameter form is.  Applying
\* a closure whose parameter expression is not a list, holds a non-symbol, or
\* has another length than the argument forms fails with the matching reason
\* right after the head was evaluated: no argument form and no body is
\* evaluated, and the caller's environment is the one the head left.
Thm_C4 ==
    \A i \in 1..Len(log) :
        /\ (IsEnter(log, i) /\ IsForm(log[i].exp, "fn") /\ Len(log[i].exp.l) = 3) =>
              /\ i + 1 <= Len(log)
              /\ log[i + 1] = Exit(log[i].d, log[i].exp, log[i].env,
                                   Ok(Lambda(log[i].exp.l[2], log[i].exp.l[3])))
        /\ (HeadReturned(log, i) /\ log[Ret(log, i + 1)].res.k = "Ok") =>
              LET h == Ret(log, i + 1)
                  callee == log[h].res.v
              IN  (callee.t = "Lambda"
                      /\ Invalid(callee.params_exp, Tail(log[i].exp.l)) # "") =>
                      /\ h + 1 <= Len(log)
                      /\ log[h + 1] =
                             Exit(log[i].d, log[i].exp, log[h].env,
                                  Err(Invalid(callee.params_exp, Tail(log[i].exp.l))))

\* a closure with two parameters was applied to the single argument form
\* (def z 1): the application failed on the count and z is not bound
Wit_C4 ==
    /\ pc = "print"
    /\ "z" \notin DOMAIN env.data
    /\ result = Some(Err("expected 2 arguments, got 1"))
    /\ Len(log) > 0
    /\ IsApplication(log[1].exp)
    /\ Len(log[1].exp.l) = 2
    /\ log[1].exp.l[2] = List(<<Symbol("def"), Symbol("z"), Number(1)>>)

-----------------------------------------------------------------------------
(* C5 *)

\* the values the calls entered at cs[2..] returned
ArgValues(lg, cs) == [n \in 1..(Len(cs) - 1) |-> lg[Ret(lg, cs[n + 1])].res.v]

NativeCalls(lg, i) ==
    {n \in i..Len(lg) :
        /\ lg[n].ev = "native"
        /\ lg[n].d = lg[i].d
        /\ (Ret(lg, i) = 0 \/ n < Ret(lg, i))}

\* C5: builtin application.  After the head evaluated to a native function the
\* argument forms are evaluated one after the other from the left, each in the
\* environment the one before left.  The first one that fails ends the
\* application with its error: nothing to its right is evaluated, the
\* environment is the one it left, the native function is not invoked.  When
\* none fails the native function is invoked once, with the values in
\* argument order, and its result is the application's.
Thm_C5 ==
    \A i \in 1..Len(log) :
        ( /\ HeadReturned(log, i)
          /\ log[Ret(log, i + 1)].res.k = "Ok"
          /\ log[Ret(log, i + 1)].res.v.t = "Func" ) =>
            LET cs == Children(log, i)
                arg_forms == Tail(log[i].exp.l)
                last == cs[Len(cs)]
                r == Ret(log, last)
            IN  /\ Len(cs) - 1 <= Len(arg_forms)
                /\ \A n \in 2..Len(cs) :
                      /\ log[cs[n]].exp = arg_forms[n - 1]
                      /\ cs[n] = Ret(log, cs[n - 1]) + 1
                      /\ log[cs[n]].env = log[cs[n] - 1].env
                      /\ log[cs[n] - 1].res.k = "Ok"
                /\ (r # 0 /\ log[r].res.k = "Err") =>
                      /\ log[r + 1] = Exit(log[i].d, log[i].exp, log[r].env, log[r].res)
                      /\ NativeCalls(log, i) = {}
                /\ (r # 0 /\ log[r].res.k = "Ok") =>
                      /\ Len(cs) - 1 = Len(arg_forms)
                      /\ NativeCalls(log, i) = {r + 1}
                      /\ log[r + 1] = Native(log[i].d, log[Ret(log, i + 1)].res.v.f,
                                             ArgValues(log, cs))
                      /\ log[r + 2] =
                             Exit(log[i].d, log[i].exp, log[r].env,
                                  call_func(log[Ret(log, i + 1)].res.v.f,
                                            ArgValues(log, cs)))

\* (+ (def z 1) y (def w 2)) at the root with y unbound: the error is y's, z is
\* bound by the form to its left, w by the form to its right is not
Wit_C5 ==
    /\ pc = "print"
    /\ result = Some(Err("unexpected symbol k='y'"))
    /\ Len(log) > 0
    /\ log[1].exp.t = "List"
    /\ Len(log[1].exp.l) = 4
    /\ log[1].exp.l[1] = Symbol("+")
    /\ log[1].exp.l[4] = List(<<Symbol("def"), Symbol("w"), Number(2)>>)
    /\ "z" \in DOMAIN env.data
    /\ "z" \notin DOMAIN log[1].env.data
    /\ "w" \notin DOMAIN env.data

-----------------------------------------------------------------------------
(* The rules of the special forms, read off the log *)

\* the call entered at i returned at once, with res, leaving its environment
ReturnsAtOnce(lg, i, res) ==
    /\ i + 1 <= Len(lg)
    /\ lg[i + 1] = Exit(lg[i].d, lg[i].exp, lg[i].env, res)

\* the call entered at i first calls eval on form, in its own environment
FirstEvaluates(lg, i, form) ==
    /\ i + 1 <= Len(lg)
    /\ lg[i + 1] = Enter(lg[i].d + 1, form, lg[i].env)

\* the call entered at i returns what its call entered at c returned
ReturnsResultOf(lg, i, c) ==
    LET r == Ret(lg, c)
    IN  /\ r # 0
        /\ r + 1 <= Len(lg)
        /\ lg[r + 1] = Exit(lg[i].d, lg[i].exp, lg[r].env, lg[r].res)

\* the if form entered at i, which returned, was evaluated by the rule of if
IfRule(lg, i) ==
    LET arg_forms == Tail(lg[i].exp.l)
        cs == Children(lg, i)
        t == Ret(lg, i + 1)
    IN  IF arg_forms = <<>> THEN ReturnsAtOnce(lg, i, Err("expected test form"))
        ELSE
        /\ FirstEvaluates(lg, i, arg_forms[1])
        /\ t # 0
        /\ IF lg[t].res.k = "Err"
           THEN Len(cs) = 1 /\ ReturnsResultOf(lg, i, i + 1)
           ELSE IF lg[t].res.v.t # "Bool"
           THEN /\ Len(cs) = 1
                /\ lg[t + 1] =
                       Exit(lg[i].d, lg[i].exp, lg[t].env,
                            Err("unexpected test form='" \o to_string(arg_forms[1])
                                    \o "'"))
           ELSE LET idx == IF lg[t].res.v.b THEN 1 ELSE 2
                IN  IF idx + 1 > Len(arg_forms)
                    THEN /\ Len(cs) = 1
                         /\ lg[t + 1] =
                                Exit(lg[i].d, lg[i].exp, lg[t].env,
                                     Err("expected form idx=" \o ToString(idx)))
                    ELSE /\ Len(cs) = 2
                         /\ cs[2] = t + 1
                         /\ lg[t + 1] = Enter(lg[i].d + 1, arg_forms[idx + 1], lg[t].env)
                         /\ ReturnsResultOf(lg, i, t + 1)

\* the environment `after` is `before` with k bound to v in its own frame
Bound(before, k, v, after) ==
    /\ after.outer = before.outer
    /\ DOMAIN after.data = DOMAIN before.data \cup {k}
    /\ \A x \in DOMAIN after.data :
          after.data[x] = IF x = k THEN v ELSE before.data[x]

\* the def form entered at i, which returned, was evaluated by the rule of def
DefRule(lg, i) ==
    LET arg_forms == Tail(lg[i].exp.l)
        v == Ret(lg, i + 1)
    IN  IF arg_forms = <<>> THEN ReturnsAtOnce(lg, i, Err("expected first form"))
        ELSE IF arg_forms[1].t # "Symbol"
        THEN ReturnsAtOnce(lg, i, Err("expected first form to be a symbol"))
        ELSE IF Len(arg_forms) < 2
        THEN ReturnsAtOnce(lg, i, Err("expected second form"))
        ELSE IF Len(arg_forms) > 2
        THEN ReturnsAtOnce(lg, i, Err("def can only have two forms "))
        ELSE /\ FirstEvaluates(lg, i, arg_forms[2])
             /\ v # 0
             /\ Len(Children(lg, i)) = 1
             /\ IF lg[v].res.k = "Err" THEN ReturnsResultOf(lg, i, i + 1)
                ELSE /\ v + 1 <= Len(lg)
                     /\ lg[v + 1].ev = "exit"
                     /\ lg[v + 1].d = lg[i].d
                     /\ lg[v + 1].exp = lg[i].exp
                     /\ lg[v + 1].res = Ok(arg_forms[1])
                     /\ Bound(lg[v].env, arg_forms[1].s, lg[v].res.v, lg[v + 1].env)

\* the fn form entered at i was evaluated by the rule of fn
FnRule(lg, i) ==
    LET arg_forms == Tail(lg[i].exp.l)
    IN  ReturnsAtOnce(lg, i,
            IF arg_forms = <<>> THEN Err("expected args form")
            ELSE IF Len(arg_forms) < 2 THEN Err("expected second form")
            ELSE IF Len(arg_forms) > 2
            THEN Err("fn definition can only have two forms ")
            ELSE Ok(Lambda(arg_forms[1], arg_forms[2])))

-----------------------------------------------------------------------------
(* C6 *)

\* C6: if evaluates its test form once, first.  A test value true selects the
\* form at index 1 and false the form at index 2; the selected form is the
\* only other form evaluated and its result is the result of the if.  A test
\* value that is not a Boolean fails naming the test form with no branch
\* evaluated, and a selected index that does not exist fails with
\* "expected form idx=<index>" ("expected form idx=2" for a false test).
Thm_C6 ==
    \A i \in 1..Len(log) :
        (IsEnter(log, i) /\ IsForm(log[i].exp, "if") /\ Ret(log, i) # 0) =>
            IfRule(log, i)

\* (if (< 3 2) (def z 1) 0): the test was false, the result is that of the form
\* at index 2, and the def of the form at index 1 did not happen
Wit_C6 ==
    /\ pc = "print"
    /\ result = Some(Ok(Number(0)))
    /\ Len(log) > 0
    /\ IsForm(log[1].exp, "if")
    /\ Len(log[1].exp.l) = 4
    /\ log[1].exp.l[3] = List(<<Symbol("def"), Symbol("z"), Number(1)>>)
    /\ log[Ret(log, 2)].res = Ok(Bool(FALSE))
    /\ "z" \notin DOMAIN env.data

-----------------------------------------------------------------------------
(* C7 *)

ShadowableNames == {"if", "def", "fn"}

\* C7: special-form precedence.  A list headed by if, def or fn is evaluated
\* by that form's rule also where the environment binds the name, and the
\* binding is what the symbol evaluates to in any other position.
Thm_C7 ==
    \A i \in 1..Len(log) :
        /\ ( /\ IsEnter(log, i)
             /\ \E s \in ShadowableNames :
                   IsForm(log[i].exp, s) /\ Binders(s, log[i].env) # {}
             /\ Ret(log, i) # 0 ) =>
               CASE IsForm(log[i].exp, "if") -> IfRule(log, i)
                 [] IsForm(log[i].exp, "def") -> DefRule(log, i)
                 [] IsForm(log[i].exp, "fn") -> FnRule(log, i)
        /\ ( /\ log[i].ev = "exit"
             /\ log[i].exp.t = "Symbol"
             /\ log[i].exp.s \in ShadowableNames
             /\ Binders(log[i].exp.s, log[i].env) # {} ) =>
               /\ log[i].res.k = "Ok"
               /\ \E n \in Binders(log[i].exp.s, log[i].env) :
                     log[i].res.v = Frames(log[i].env)[n][log[i].exp.s]

\* (if true if 0) where the root binds if to 5: the form was evaluated as a
\* conditional, and the symbol if in the selected branch evaluated to 5
Wit_C7 ==
    /\ pc = "print"
    /\ result = Some(Ok(Number(5)))
    /\ Len(log) > 0
    /\ log[1].exp = List(<<Symbol("if"), Bool(TRUE), Symbol("if"), Number(0)>>)
    /\ "if" \in DOMAIN env.data
    /\ env.data["if"] = Number(5)

-----------------------------------------------------------------------------
(* C8 *)

\* opening minus closing parentheses among the first n tokens
RECURSIVE Depth(_, _)
Depth(toks, n) ==
    IF n = 0 THEN 0
    ELSE Depth(toks, n - 1)
             + (IF toks[n] = "(" THEN 1 ELSE IF toks[n] = ")" THEN -1 ELSE 0)

\* the lengths at which a sequence that starts with "(" is balanced
ClosedAt(toks) == {n \in 1..Len(toks) : Depth(toks, n) = 0}

\* the tokens an expression is written with
RECURSIVE Unparse(_)
RECURSIVE UnparseAll(_)
Unparse(exp) ==
    IF exp.t = "List" THEN <<"(">> \o UnparseAll(exp.l) \o <<")">>
    ELSE <<to_string(exp)>>
UnparseAll(exps) ==
    IF exps = <<>> THEN <<>> ELSE Unparse(exps[1]) \o UnparseAll(Tail(exps))

\* C8: parse on a token sequence that starts with "(" ends; it succeeds exactly
\* when some prefix is balanced, and then returns the list written by the
\* shortest balanced prefix together with every token after that prefix,
\* whatever they are; otherwise it fails with "could not find closing".  The
\* remainder is a strict suffix of the input.
Thm_C8 ==
    (parsed # None /\ tokens # <<>> /\ tokens[1] = "(") =>
        LET ns == ClosedAt(tokens)
            n == CHOOSE m \in ns : \A q \in ns : m <= q
        IN  IF ns = {} THEN parsed[1] = Err("could not find closing ')'")
            ELSE /\ parsed[1].k = "Ok"
                 /\ parsed[1].v[1].t = "List"
                 /\ Unparse(parsed[1].v[1]) = SubSeq(tokens, 1, n)
                 /\ parsed[1].v[2] = SubSeq(tokens, n + 1, Len(tokens))
                 /\ Len(parsed[1].v[2]) < Len(tokens)

\* a nested list was parsed and a stray ")" after it came back as remainder
Wit_C8 ==
    /\ tokens = <<"(", "(", "x", ")", ")", ")">>
    /\ parsed = Some(Ok(<<List(<<List(<<Symbol("x")>>)>>), <<")">>>>))

-----------------------------------------------------------------------------
(* C9 *)

\* the last call of eval entered is on a list headed by the symbol exit
ExitEvaluated(lg) ==
    /\ lg # <<>>
    /\ lg[Len(lg)].ev = "enter"
    /\ IsForm(lg[Len(lg)].exp, "exit")

\* the successful defs of k made in the root frame
RootDefs(lg, k) ==
    {n \in 1..Len(lg) :
        /\ lg[n].ev = "exit"
        /\ IsForm(lg[n].exp, "def")
        /\ lg[n].res = Ok(Symbol(k))
        /\ lg[n].env.outer = None}

\* C9 as claimed: the session ends, while a line is evaluated, only when a
\* list headed by exit is evaluated.
CE_C9 == (pc \in {"exited", "aborted"}) => ExitEvaluated(log)

\* what one evaluation of a line does to the session
SessionStep ==
    (pc = "eval") =>
        /\ (result'[1].k \in {"Ok", "Err"}) <=> (pc' = "print")
        /\ (pc' = "exited") <=> ExitEvaluated(log')
        /\ (pc' = "aborted") <=>
               /\ log' # <<>>
               /\ log'[Len(log')].ev = "enter"
               /\ ~IsForm(log'[Len(log')].exp, "exit")
               /\ log'[Len(log')].d = StackLimit
        /\ (pc' = "print") =>
               /\ DOMAIN env.data \subseteq DOMAIN env'.data
               /\ env'.outer = None
               /\ \A k \in DOMAIN env'.data :
                     LET ds == RootDefs(log', k)
                     IN  IF ds = {} THEN k \in DOMAIN env.data /\ env'.data[k] = env.data[k]
                         ELSE env'.data[k] =
                                  log'[(CHOOSE n \in ds : \A m \in ds : m <= n) - 1].res.v
               /\ (log' # <<>> /\ log'[1].exp.t = "Symbol"
                       /\ log'[1].exp.s \in DOMAIN env.data) =>
                       result' = Some(Ok(env.data[log'[1].exp.s]))
               /\ ( /\ log' # <<>>
                    /\ log'[1].exp = List(<<Symbol("+"), Symbol("x"), Number(5)>>)
                    /\ "x" \in DOMAIN env.data
                    /\ env.data["x"] = Number(10) ) =>
                       result' = Some(Ok(Number(15)))

\* C9, amended: a line that fails or succeeds leaves the session running and
\* removes no root binding; a root binding changes only by a def evaluated in
\* the root frame, to the value of the last such def of the line, and is what
\* later lines resolve the name to ((def x 10), then (+ x 5), yields 15).
\* While a line is evaluated the session ends only when a list headed by exit
\* is evaluated, or when the nested calls of eval exhaust the call stack.
Thm_C9 == [][SessionStep]_vars

\* three lines into a session x is still bound to 10 and (+ x 5) gave 15
Wit_C9 ==
    /\ pc = "print"
    /\ nlines = 3
    /\ log # <<>>
    /\ log[1].exp = List(<<Symbol("+"), Symbol("x"), Number(5)>>)
    /\ result = Some(Ok(Number(15)))
    /\ env.data["x"] = Number(10)

-----------------------------------------------------------------------------
(* C10 *)

SameBinding(k, before, after) ==
    /\ (k \in DOMAIN before.data) <=> (k \in DOMAIN after.data)
    /\ (k \in DOMAIN before.data) => after.data[k] = before.data[k]

\* the def form entered at i returned an error and names a symbol
FailedDefOf(lg, i) ==
    /\ IsEnter(lg, i)
    /\ IsForm(lg[i].exp, "def")
    /\ Ret(lg, i) # 0
    /\ lg[Ret(lg, i)].res.k = "Err"
    /\ Len(lg[i].exp.l) > 1
    /\ lg[i].exp.l[2].t = "Symbol"

\* successful defs of k made in the frame of the call entered at i, inside it
InnerDefs(lg, i, k) ==
    {n \in (i + 1)..(Ret(lg, i) - 1) :
        /\ lg[n].ev = "exit"
        /\ IsForm(lg[n].exp, "def")
        /\ lg[n].res = Ok(Symbol(k))
        /\ Len(Frames(lg[n].env)) = Len(Frames(lg[i].env))}

\* C10 as claimed: whenever (def k ...) fails, the binding of k in the current
\* frame is exactly what it was before.
CE_C10 ==
    \A i \in 1..Len(log) :
        FailedDefOf(log, i) =>
            SameBinding(log[i].exp.l[2].s, log[i].env, log[Ret(log, i)].env)

\* C10, amended: (def k e) with a symbol k and exactly two argument forms
\* evaluates e in the current frame as it is, then binds k to the value in
\* that frame and returns Symbol(k); otherwise it fails without evaluating
\* anything.  A def that fails writes nothing itself: the frame is as the
\* evaluation of e (if any) left it, so the binding of k is what it was before
\* unless e itself executed a def of k in that frame.
Thm_C10 ==
    \A i \in 1..Len(log) :
        /\ (IsEnter(log, i) /\ IsForm(log[i].exp, "def") /\ Ret(log, i) # 0) =>
               DefRule(log, i)
        /\ (FailedDefOf(log, i) /\ InnerDefs(log, i, log[i].exp.l[2].s) = {}) =>
               SameBinding(log[i].exp.l[2].s, log[i].env, log[Ret(log, i)].env)

\* (def q y) failed on the unbound y, and q, unbound before, is unbound after
Wit_C10 ==
    /\ pc = "print"
    /\ log # <<>>
    /\ log[1].exp = List(<<Symbol("def"), Symbol("q"), Symbol("y")>>)
    /\ result = Some(Err("unexpected symbol k='y'"))
    /\ "q" \notin DOMAIN log[1].env.data
    /\ "q" \notin DOMAIN env.data

=============================================================================
